---- MODULE Spec2Model ----
(***************************************************************************)
(* Model of snntorch/_neurons/funky.py: the Funky leaky integrate-and-fire *)
(* neuron, whose threshold is perturbed by normal noise whenever a forward *)
(* call fires.                                                             *)
(*                                                                         *)
(* Numbers are exact fixed-point integers: the value x is held as          *)
(* x * One.  One is ten Tenths, and a Tenth is a power of two large enough *)
(* for the halvings of a run to stay exact: a forward call halves at most  *)
(* twice (beta = 0.5, and a spike divided by a graded-spike factor of 2),  *)
(* the example's calls once.                                               *)
(* A tensor of shape (1, n) is a sequence of n numbers; a single-valued    *)
(* threshold is a sequence of length 1 and broadcasts.                     *)
(***************************************************************************)
EXTENDS Integers, Sequences, FiniteSets, TLC

MaxCalls == 2
ScenarioCalls == 3

Tenth == (4 ^ MaxCalls) * (2 ^ ScenarioCalls)
One == 10 * Tenth
Half == 5 * Tenth
T(x) == x * Tenth

\* an optional argument: None, or Some(t) holding the tensor t
None == <<>>
Some(t) == <<t>>

\* ---------------------------------------------------------------- tensors
zeros_like(t) == [i \in 1..Len(t) |-> 0]

\* element i of a tensor broadcast against a longer one
At(t, i) == IF Len(t) = 1 THEN t[1] ELSE t[i]

any(t) == \E i \in 1..Len(t) : t[i] # 0

TensorsOver(vals, n) == [1..n -> vals]

\* ---------------------------------------------------------------- inputs
BetaSet == {T(-5), T(5), T(15)}
FunkinessSet == {0, T(6)}
ThresholdSet == {<<T(10)>>, <<T(10), T(20)>>}
FactorSet == {1, 2}

Inputs == {<<T(6)>>, <<T(15), T(6)>>}
MemArgs == {None, Some(<<T(12)>>)}

\* torch.normal(mean=0.0, std=funkiness, size=shape): with std = 0 the sample
\* is 0; with std > 0 it is nonzero with probability 1 (one deviation either
\* side stands for the draw), each element drawn separately.
normal(std, n) == IF std = 0 THEN {[i \in 1..n |-> 0]} ELSE TensorsOver({0 - std, std}, n)

\* ---------------------------------------------------------------- state
VARIABLES
    beta, funkiness, threshold, init_hidden, inhibition, reset_mechanism_val,
    state_quant, output, graded_spikes_factor, reset_delay,
    mem, reset,
    ref_mem,
    threshold_init, hist, carried

config == <<beta, funkiness, init_hidden, inhibition, reset_mechanism_val,
            state_quant, output, graded_spikes_factor, reset_delay, threshold_init>>
vars == <<beta, funkiness, threshold, init_hidden, inhibition, reset_mechanism_val,
          state_quant, output, graded_spikes_factor, reset_delay, mem, reset,
          ref_mem, threshold_init, hist, carried>>

\* ---------------------------------------------------------------- helpers
\* self.beta.clamp(0, 1)
clamp01(b) == IF b < 0 THEN 0 ELSE IF b > One THEN One ELSE b

\* product of two fixed-point numbers
Mul(a, b) == (a * b) \div One

\* forward value of the surrogate spike function: Heaviside step
spike_grad(x) == IF x > 0 THEN 1 ELSE 0

\* LIF.mem_reset: 1 where mem exceeds the threshold, else 0
mem_reset(mem_, thr) == [i \in 1..Len(mem_) |-> spike_grad(mem_[i] - At(thr, i))]

\* the injected quantiser: rounds down to a multiple of 0.5
quant(mem_) == [i \in 1..Len(mem_) |-> (mem_[i] \div Half) * Half]

\* mutant of _base_state_function: beta used without the clamp
_base_state_function_noclamp(b, mem_, input_) ==
    [i \in 1..Len(input_) |-> Mul(b, mem_[i]) + input_[i]]

_base_state_function(b, mem_, input_) ==
    [i \in 1..Len(input_) |-> Mul(clamp01(b), mem_[i]) + input_[i]]

\* mutant of _base_sub: the threshold subtracted whether or not the reset is
\* active
_base_sub_always(b, mem_, input_, reset_, thr) ==
    [i \in 1..Len(input_) |->
        _base_state_function(b, mem_, input_)[i] - At(thr, i)]

_base_sub(b, mem_, input_, reset_, thr) ==
    [i \in 1..Len(input_) |->
        _base_state_function(b, mem_, input_)[i] - reset_[i] * At(thr, i)]

_base_zero(b, mem_, input_, reset_) ==
    _base_state_function(b, [i \in 1..Len(mem_) |-> (1 - reset_[i]) * mem_[i]], input_)

_base_int(b, mem_, input_) == _base_state_function(b, mem_, input_)

state_function(val, b, mem_, input_, reset_, thr) ==
    CASE val = 0 -> _base_sub(b, mem_, input_, reset_, thr)
      [] val = 1 -> _base_zero(b, mem_, input_, reset_)
      [] val = 2 -> _base_int(b, mem_, input_)

\* ---------------------------------------------------------------- firing
\* mutant of fire: the threshold perturbed at every call, spike or not
fire_always(mem_, thr, sq, g, noise) ==
    LET m == IF sq THEN quant(mem_) ELSE mem_
    IN  [spk |-> [i \in 1..Len(m) |-> spike_grad(m[i] - At(thr, i)) * g],
         threshold |-> [i \in 1..Len(thr) |-> thr[i] + noise[i]]]

\* Funky.fire: spike where mem exceeds the threshold, scaled by the graded
\* spike factor; if any spike is nonzero the noise is added to every element
\* of the threshold.
fire(mem_, thr, sq, g, noise) ==
    LET m == IF sq THEN quant(mem_) ELSE mem_
        spk == [i \in 1..Len(m) |-> spike_grad(m[i] - At(thr, i)) * g]
    IN  [spk |-> spk,
         threshold |-> IF any(spk) THEN [i \in 1..Len(thr) |-> thr[i] + noise[i]]
                       ELSE thr]

\* LIF.fire of the base class: the same spike, the threshold left alone
lif_fire(mem_, thr, sq, g) ==
    LET m == IF sq THEN quant(mem_) ELSE mem_
    IN  [i \in 1..Len(m) |-> spike_grad(m[i] - At(thr, i)) * g]

\* index of the first maximal element
argmax(t) == CHOOSE i \in 1..Len(t) :
                /\ \A j \in 1..Len(t) : t[j] <= t[i]
                /\ \A j \in 1..(i - 1) : t[j] < t[i]

\* LIF.fire_inhibition of the base class: only the neuron with the highest
\* membrane may spike; the threshold is not touched.
fire_inhibition(mem_, thr) ==
    [i \in 1..Len(mem_) |->
        IF i = argmax(mem_) THEN spike_grad(mem_[i] - At(thr, i)) ELSE 0]

\* ---------------------------------------------------------------- forward
Ret(kind, spk, mem_) == [kind |-> kind, spk |-> spk, mem |-> mem_]

\* what a call returns (lines 240-245)
returned(out, ih, spk, mem_) ==
    IF out THEN Ret("spk_mem", spk, mem_)
    ELSE IF ih THEN Ret("spk", spk, <<>>)
    ELSE Ret("spk_mem", spk, mem_)

\* spk / graded_spikes_factor - reset, as a fixed-point number
do_reset(spk, g, reset_) ==
    [i \in 1..Len(spk) |-> (spk[i] * One) \div g - reset_[i] * One]

\* mutant of mem_arg_rejected: an explicit mem refused whoever owns the state
mem_arg_rejected_always(ih, arg) == arg # None

\* lines 209-212: an explicit mem is refused when the neuron owns its state
mem_arg_rejected(ih, arg) == ih /\ arg # None

\* Funky.forward.  cfg holds the construction parameters, st the instance
\* attributes (mem, reset, threshold); the result holds the attributes after
\* the call, what the call returned or raised, and the intermediate values.
forward(cfg, st, input_, arg, noise) ==
    LET mem1 == IF arg # None THEN arg[1] ELSE st.mem
    IN
    IF mem_arg_rejected(cfg.init_hidden, arg)
    THEN [mem |-> mem1, reset |-> st.reset, threshold |-> st.threshold,
          ret |-> Ret("TypeError", <<>>, <<>>),
          mem_upd |-> <<>>, spk |-> <<>>]
    ELSE
    LET m == IF Len(mem1) # Len(input_) THEN zeros_like(input_) ELSE mem1
        R == mem_reset(m, st.threshold)
        mem2 == state_function(cfg.reset_mechanism_val, cfg.beta, m, input_, R,
                               st.threshold)
        mem3 == IF cfg.state_quant THEN quant(mem2) ELSE mem2
        fired == fire(mem3, st.threshold, cfg.state_quant,
                      cfg.graded_spikes_factor, noise)
        spk == IF cfg.inhibition THEN fire_inhibition(mem3, st.threshold)
               ELSE fired.spk
        thr2 == IF cfg.inhibition THEN st.threshold ELSE fired.threshold
        \* line 228 binds the name to the threshold tensor itself, which fire
        \* then updates in place: the name reads the updated tensor
        threshold_before_spike == thr2
        dr == do_reset(spk, cfg.graded_spikes_factor, R)
        unbound == /\ ~cfg.reset_delay
                   /\ cfg.reset_mechanism_val = 0
                   /\ cfg.inhibition
        mem4 == IF cfg.reset_delay THEN mem3
                ELSE CASE cfg.reset_mechanism_val = 0 ->
                            [i \in 1..Len(mem3) |->
                                mem3[i] - Mul(dr[i], At(threshold_before_spike, i))]
                       [] cfg.reset_mechanism_val = 1 ->
                            [i \in 1..Len(mem3) |-> mem3[i] - Mul(dr[i], mem3[i])]
                       [] OTHER -> mem3
    IN
    IF unbound
    THEN [mem |-> mem3, reset |-> R, threshold |-> thr2,
          ret |-> Ret("UnboundLocalError", <<>>, <<>>),
          mem_upd |-> mem3, spk |-> spk]
    ELSE [mem |-> mem4, reset |-> R, threshold |-> thr2,
          ret |-> returned(cfg.output, cfg.init_hidden, spk, mem4),
          mem_upd |-> mem3, spk |-> spk]

\* The reference neuron: the forward step of the base leaky
\* integrate-and-fire neuron, whose threshold is never perturbed.
leaky_forward(cfg, st, input_, arg) ==
    LET mem1 == IF arg # None THEN arg[1] ELSE st.mem
    IN
    IF cfg.init_hidden /\ arg # None
    THEN [mem |-> mem1, ret |-> Ret("TypeError", <<>>, <<>>)]
    ELSE
    LET m == IF Len(mem1) # Len(input_) THEN zeros_like(input_) ELSE mem1
        R == mem_reset(m, st.threshold)
        mem2 == state_function(cfg.reset_mechanism_val, cfg.beta, m, input_, R,
                               st.threshold)
        mem3 == IF cfg.state_quant THEN quant(mem2) ELSE mem2
        spk == IF cfg.inhibition THEN fire_inhibition(mem3, st.threshold)
               ELSE lif_fire(mem3, st.threshold, cfg.state_quant,
                             cfg.graded_spikes_factor)
        dr == do_reset(spk, cfg.graded_spikes_factor, R)
        mem4 == IF cfg.reset_delay THEN mem3
                ELSE CASE cfg.reset_mechanism_val = 0 ->
                            [i \in 1..Len(mem3) |->
                                mem3[i] - Mul(dr[i], At(st.threshold, i))]
                       [] cfg.reset_mechanism_val = 1 ->
                            [i \in 1..Len(mem3) |-> mem3[i] - Mul(dr[i], mem3[i])]
                       [] OTHER -> mem3
    IN  [mem |-> mem4, ret |-> returned(cfg.output, cfg.init_hidden, spk, mem4)]

\* ---------------------------------------------------------------- actions
Cfg == [beta |-> beta, init_hidden |-> init_hidden, inhibition |-> inhibition,
        reset_mechanism_val |-> reset_mechanism_val, state_quant |-> state_quant,
        output |-> output, graded_spikes_factor |-> graded_spikes_factor,
        reset_delay |-> reset_delay]

\* Funky.__init__ and _init_mem: the parameters are stored, mem is the empty
\* tensor.
Init ==
    /\ beta \in BetaSet
    /\ funkiness \in FunkinessSet
    /\ threshold \in ThresholdSet
    /\ init_hidden \in BOOLEAN
    /\ inhibition \in BOOLEAN
    /\ reset_mechanism_val \in {0, 1, 2}
    /\ state_quant \in BOOLEAN
    /\ output \in BOOLEAN
    /\ graded_spikes_factor \in FactorSet
    /\ reset_delay \in BOOLEAN
    /\ mem = <<>>
    /\ reset = <<>>
    /\ ref_mem = <<>>
    /\ threshold_init = threshold
    /\ hist = <<>>
    /\ carried = FALSE

\* one call of forward(input_, mem=arg), the n-th at most; the reference
\* neuron is given the same call
Forward(n) ==
    /\ Len(hist) < n
    /\ \E input_ \in Inputs, arg \in MemArgs :
        /\ Len(threshold) = 1 \/ Len(threshold) = Len(input_)
        /\ \E noise \in normal(funkiness, Len(threshold)) :
            \E r \in {forward(Cfg, [mem |-> mem, reset |-> reset,
                                   threshold |-> threshold], input_, arg, noise)},
               q \in {leaky_forward(Cfg, [mem |-> ref_mem,
                                         threshold |-> threshold_init], input_, arg)} :
                /\ mem' = r.mem
                /\ reset' = r.reset
                /\ threshold' = r.threshold
                /\ ref_mem' = q.mem
                /\ hist' = Append(hist,
                        [input_ |-> input_, arg |-> arg,
                         mem_stored |-> mem, thr_before |-> threshold,
                         carried |-> carried /\ arg = None /\ Len(mem) = Len(input_),
                         R |-> r.reset, mem_upd |-> r.mem_upd,
                         spk |-> r.spk, ret |-> r.ret, mem_after |-> r.mem,
                         thr_after |-> r.threshold,
                         ref_ret |-> q.ret, ref_mem |-> q.mem])
                /\ carried' = (r.ret.kind \in {"spk", "spk_mem"})
    /\ UNCHANGED config

\* Funky.reset_mem (and init_funky, reset_hidden): mem becomes zeros of the
\* same shape
ResetMem ==
    /\ mem' = zeros_like(mem)
    /\ ref_mem' = zeros_like(ref_mem)
    /\ carried' = FALSE
    /\ UNCHANGED <<config, threshold, reset, hist>>

Next == Forward(MaxCalls) \/ ResetMem

Spec == Init /\ [][Next]_vars

\* The documented example: beta = 0.5, threshold = 1.0, funkiness = 0, reset by
\* subtraction, the other parameters at their defaults or free where they do
\* not enter the membrane.
InitScenario ==
    /\ Init
    /\ beta = Half
    /\ funkiness = 0
    /\ threshold = <<One>>
    /\ reset_mechanism_val = 0
    /\ reset_delay
    /\ ~inhibition
    /\ ~state_quant

NextScenario == Forward(ScenarioCalls) \/ ResetMem

SpecScenario == InitScenario /\ [][NextScenario]_vars

\* ================================================================ claims
Calls == 1..Len(hist)
Returned(h) == h.ret.kind \in {"spk", "spk_mem"}
Raised(h, kind) == h.ret.kind = kind
ThrAt(thr, i) == IF Len(thr) = 1 THEN thr[1] ELSE thr[i]
Spiked(h) == \E i \in 1..Len(h.spk) : h.spk[i] # 0

\* the membrane a call starts its update from: the explicit argument if one
\* is given, else the stored membrane; zeros when its shape is not the input's
StartMem(h) ==
    LET a == IF h.arg = None THEN h.mem_stored ELSE h.arg[1]
    IN  IF Len(a) = Len(h.input_) THEN a ELSE [i \in 1..Len(h.input_) |-> 0]

ClampedBeta == IF beta < 0 THEN 0 ELSE IF beta > One THEN One ELSE beta

\* the threshold a call starts with is the one the call before it left, the
\* first call starts with the constructed one, and the neuron holds the one
\* the last call left
ThresholdChain ==
    /\ \A k \in Calls :
        hist[k].thr_before = IF k = 1 THEN threshold_init ELSE hist[k - 1].thr_after
    /\ threshold = IF hist = <<>> THEN threshold_init ELSE hist[Len(hist)].thr_after

\* C1: a forward call whose returned spike tensor is all zeros leaves the
\* threshold as it was, element for element; the threshold is only ever
\* modified by a forward call that returned at least one nonzero spike.
C1_NoSpikeNoDrift ==
    /\ ThresholdChain
    /\ \A k \in Calls :
        /\ (Returned(hist[k]) /\ ~Spiked(hist[k]))
                => hist[k].thr_after = hist[k].thr_before
        /\ hist[k].thr_after # hist[k].thr_before
                => (Returned(hist[k]) /\ Spiked(hist[k]))

\* a call without a spike, made by a neuron of nonzero funkiness whose
\* threshold an earlier call has already moved
C1_Witness ==
    \E k \in Calls :
        /\ k > 1
        /\ funkiness # 0
        /\ hist[k].thr_before # threshold_init
        /\ Returned(hist[k])
        /\ ~Spiked(hist[k])

\* C2 (as claimed): a forward call that returns a nonzero spike, inhibition
\* enabled or not, adds a noise term to every element of the threshold: with
\* nonzero funkiness every element changes.
C2_SpikeMovesEveryElement ==
    \A k \in Calls :
        (funkiness # 0 /\ Returned(hist[k]) /\ Spiked(hist[k]))
            => \A i \in 1..Len(threshold) :
                    hist[k].thr_after[i] # hist[k].thr_before[i]

\* C3 (as claimed): with funkiness = 0 the threshold stays at its constructed
\* value and every call returns what the reference leaky neuron returns and
\* leaves the membrane the reference leaves.
C3_ZeroFunkinessIsLeaky ==
    funkiness = 0 =>
        /\ threshold = threshold_init
        /\ mem = ref_mem
        /\ \A k \in Calls :
            /\ hist[k].ret = hist[k].ref_ret
            /\ hist[k].mem_after = hist[k].ref_mem

\* C4: a call raises the TypeError exactly when it is given an explicit
\* membrane while init_hidden is set, and then returns neither spikes nor
\* state.
C4_TypeErrorIffExplicitMem ==
    \A k \in Calls :
        /\ Raised(hist[k], "TypeError") <=> (init_hidden /\ hist[k].arg # None)
        /\ Raised(hist[k], "TypeError")
                => (hist[k].ret.spk = <<>> /\ hist[k].ret.mem = <<>>)

C4_Witness ==
    /\ init_hidden
    /\ Len(hist) = 2
    /\ hist[1].arg = None /\ Returned(hist[1])
    /\ hist[2].arg # None /\ Raised(hist[2], "TypeError")

C6_SpikeThenSubtract ==
    \A k \in Calls :
        (/\ k > 1
         /\ reset_mechanism_val = 0 /\ reset_delay /\ ~inhibition /\ ~state_quant
         /\ hist[k].carried
         /\ Returned(hist[k - 1]) /\ Returned(hist[k]))
        => \A i \in 1..Len(hist[k].input_) :
                hist[k - 1].spk[i] # 0 =>
                    hist[k].mem_after[i] =
                        (ClampedBeta * hist[k - 1].mem_after[i]) \div One
                            + hist[k].input_[i] - ThrAt(hist[k].thr_before, i)

\* C7 (as claimed): reset to zero with reset_delay: when the reset is active
\* the next membrane is 0, whatever the input.
C7_ZeroResetGivesZero ==
    \A k \in Calls :
        (reset_mechanism_val = 1 /\ reset_delay /\ ~state_quant /\ Returned(hist[k]))
        => \A i \in 1..Len(hist[k].input_) :
                hist[k].R[i] = 1 => hist[k].mem_after[i] = 0

\* the example's calls so far: input 0.6 each time, no explicit membrane, no
\* reset in between, starting from the empty membrane
ExampleRun ==
    \A k \in Calls :
        /\ hist[k].input_ = <<6 * Tenth>>
        /\ hist[k].arg = None
        /\ k > 1 => hist[k].carried

Example == beta = Half /\ funkiness = 0 /\ threshold_init = <<One>>
           /\ reset_mechanism_val = 0 /\ reset_delay /\ ~inhibition /\ ~state_quant

\* C8 (as claimed): in the example the membrane is 0.6 after the first call
\* and 0.9 after the second, and the neuron spikes at the second call.
C8_ExampleAsClaimed ==
    (Example /\ ExampleRun /\ Len(hist) >= 2) =>
        /\ hist[1].mem_after = <<6 * Tenth>>
        /\ hist[2].mem_after = <<9 * Tenth>>
        /\ Spiked(hist[2])

\* C8 (amended): in the example the membrane is 0.6 after the first call and
\* 0.9 after the second, neither call spikes (0.9 does not exceed 1.0), and the
\* third call, with no reset subtracted, brings the membrane to 1.05 and is
\* the first to spike.
C8_ExampleTrace ==
    (Example /\ ExampleRun) =>
        /\ Len(hist) >= 1 => (hist[1].mem_after = <<6 * Tenth>> /\ ~Spiked(hist[1]))
        /\ Len(hist) >= 2 => (hist[2].mem_after = <<9 * Tenth>> /\ ~Spiked(hist[2]))
        /\ Len(hist) >= 3 => /\ hist[3].mem_after = <<One + Half \div 10>>
                             /\ hist[3].R = <<0>>
                             /\ Spiked(hist[3])

C8_Witness == Example /\ ExampleRun /\ Len(hist) = 3 /\ Returned(hist[3])

\* C9 (as claimed): with reset_delay off, reset by subtraction and no
\* inhibition, the immediate reset uses the threshold held when fire was
\* entered: the membrane left is mem' - (spk/factor - R) * threshold_before.
C9_ImmediateResetUsesOldThreshold ==
    \A k \in Calls :
        (~reset_delay /\ reset_mechanism_val = 0 /\ ~inhibition /\ Returned(hist[k]))
        => \A i \in 1..Len(hist[k].input_) :
                hist[k].mem_after[i] =
                    hist[k].mem_upd[i]
                        - (hist[k].spk[i] \div graded_spikes_factor - hist[k].R[i])
                            * ThrAt(hist[k].thr_before, i)

\* C10 (as claimed): a call that raises the TypeError leaves the stored
\* membrane and the threshold as they were.
C10_FailedCallLeavesState ==
    \A k \in Calls :
        Raised(hist[k], "TypeError") =>
            /\ hist[k].mem_after = hist[k].mem_stored
            /\ hist[k].thr_after = hist[k].thr_before

====
